---- MODULE Spec2Model ----
(***************************************************************************)
(* Trivia session engine of Trivia/server.js: the bounded, deduplicated    *)
(* question store, the single active question/answer pair, the per-player  *)
(* score ledger, and the three handlers GET /question, POST /answer and    *)
(* GET /score.                                                             *)
(*                                                                         *)
(* Encoding of JavaScript values.  A string is a sequence of character     *)
(* tokens; the labels "Question:" and "Answer:" are one token each, and    *)
(* every case variant of a label is a token of its own, so that the /i     *)
(* flag of the regular expressions and toLowerCase() are real operations.  *)
(* null, undefined, true and false are one-element sequences holding a     *)
(* token outside the alphabet.                                             *)
(***************************************************************************)
EXTENDS Integers, Sequences, FiniteSets, TLC

VARIABLES triviaQuestions, currentQuestion, currentAnswer,
          userScore, questionNumber, inflight, req, res, prev

(***************************************************************************)
(* Fruits service (Express + MongoDB): the connection middleware with      *)
(* initMongo, GET /api/fruits and PUT /api/fruits/:id.                     *)
(***************************************************************************)
VARIABLES client, fruitsCollection, docs, pending, fruitReq

triviaVars == <<triviaQuestions, currentQuestion, currentAnswer,
                userScore, questionNumber, inflight, req, res, prev>>

fruitsVars == <<client, fruitsCollection, docs, pending, fruitReq>>

vars == <<triviaQuestions, currentQuestion, currentAnswer,
          userScore, questionNumber, inflight, req, res, prev,
          client, fruitsCollection, docs, pending, fruitReq>>

-----------------------------------------------------------------------------
(* Bounds *)

\* server.js:25 sets the capacity to 100; the model scales it down so that
\* eviction happens.
maxTriviaQuestions == 2
\* number of GET /question handlers that may be suspended on axios.post
MaxInflight == 2
\* cap on the number of graded submissions
MaxAnswers == 2
\* longest string given to the grading rule on its own
MaxGradeLen == 3
\* number of requests sent to the Fruits service
MaxFruitRequests == 2

-----------------------------------------------------------------------------
(* JavaScript values *)

Null == <<"null">>
Undefined == <<"undefined">>
JsTrue == <<"true">>
JsFalse == <<"false">>

Bool(b) == IF b THEN JsTrue ELSE JsFalse

IsString(v) == v \notin {Null, Undefined, JsTrue, JsFalse}

\* a test against null instead of a test for falsy: '' passes
Truthy_NotNull(v) == v \notin {<<"null">>, <<"undefined">>, <<"true">>, <<"false">>}

\* !v is false exactly for a non-empty string
Truthy(v) == IsString(v) /\ v # <<>>

Whitespace == {" ", "\n"}
QuestionLabels == {"Question:", "QUESTION:", "question:"}
AnswerLabels == {"Answer:", "ANSWER:", "answer:"}

Min(S) == CHOOSE x \in S : \A y \in S : x <= y
Max(S) == CHOOSE x \in S : \A y \in S : x >= y

\* String.prototype.trim
Trim(s) ==
  LET idx == {i \in 1..Len(s) : s[i] \notin Whitespace}
  IN  IF idx = {} THEN <<>> ELSE SubSeq(s, Min(idx), Max(idx))

LowerChar(c) ==
  CASE c = "P" -> "p"
    [] c = "R" -> "r"
    [] c = "C" -> "c"
    [] c \in QuestionLabels -> "question:"
    [] c \in AnswerLabels -> "answer:"
    [] OTHER -> c

\* String.prototype.toLowerCase
ToLowerCase(s) == [i \in 1..Len(s) |-> LowerChar(s[i])]

-----------------------------------------------------------------------------
(* Parsing of the generated text, GET /question lines 105-121 *)

\* smallest index k >= i that is past the end or not whitespace: greedy \s*
SkipWs(text, i) ==
  Min({k \in i..(Len(text) + 1) : k > Len(text) \/ text[k] \notin Whitespace})

\* \s*Answer: matches at index i (the label is found at the returned index,
\* 0 when there is no match)
WsThenAnswer(text, i) ==
  LET k == SkipWs(text, i)
  IN  IF k <= Len(text) /\ text[k] \in AnswerLabels THEN k ELSE 0

\* text.match(/Question:\s*([\s\S]*?)\s*Answer:\s*([\s\S]*)/i): the leftmost
\* label "Question:" from which the rest can match, the lazy first group
\* ending at the first place where \s*Answer: matches, the greedy second
\* group running to the end.  matched = FALSE is the null result.
RegexMatch(text) ==
  LET starts == {i \in 1..Len(text) :
                   /\ text[i] \in QuestionLabels
                   /\ \E e \in i..Len(text) : WsThenAnswer(text, e + 1) # 0}
  IN  IF starts = {}
      THEN [matched |-> FALSE, g1 |-> <<>>, g2 |-> <<>>]
      ELSE LET qi == Min(starts)
               s1 == SkipWs(text, qi + 1)
               e  == Min({k \in (s1 - 1)..Len(text) : WsThenAnswer(text, k + 1) # 0})
               aj == WsThenAnswer(text, e + 1)
               s2 == SkipWs(text, aj + 1)
           IN  [matched |-> TRUE,
                g1 |-> SubSeq(text, s1, e),
                g2 |-> SubSeq(text, s2, Len(text))]

\* text.split(/Answer:/i)
RECURSIVE SplitAnswer(_)
SplitAnswer(text) ==
  LET hits == {i \in 1..Len(text) : text[i] \in AnswerLabels}
  IN  IF hits = {}
      THEN <<text>>
      ELSE LET i == Min(hits)
           IN  <<SubSeq(text, 1, i - 1)>> \o SplitAnswer(SubSeq(text, i + 1, Len(text)))

\* s.replace(/Question:/i, ''): the first label only
ReplaceQuestion(s) ==
  LET hits == {i \in 1..Len(s) : s[i] \in QuestionLabels}
  IN  IF hits = {}
      THEN s
      ELSE SubSeq(s, 1, Min(hits) - 1) \o SubSeq(s, Min(hits) + 1, Len(s))

\* parts.join('Answer:')
RECURSIVE JoinAnswer(_)
JoinAnswer(parts) ==
  IF Len(parts) = 0 THEN <<>>
  ELSE IF Len(parts) = 1 THEN parts[1]
  ELSE parts[1] \o <<"Answer:">> \o JoinAnswer(Tail(parts))

\* lines 105-121: content is the message content of the response (Null when
\* the response carries none); the result is the pair (question, answer)
\* that line 123 tests
ParseQA(content) ==
  LET text  == Trim(IF Truthy(content) THEN content ELSE <<>>)
      match == RegexMatch(text)
      parts == SplitAnswer(text)
  IN  IF match.matched
      THEN [question |-> Trim(match.g1), answer |-> Trim(match.g2)]
      ELSE IF Len(parts) >= 2
           THEN [question |-> Trim(ReplaceQuestion(parts[1])),
                 answer   |-> Trim(JoinAnswer(Tail(parts)))]
           ELSE [question |-> Null, answer |-> Null]

\* only the question is tested
ParseFailed_QuestionOnly(qa) == ~Truthy(qa.question)

\* only the answer is tested
ParseFailed_AnswerOnly(qa) == ~Truthy(qa.answer)

\* line 123: !question || !answer
ParseFailed(qa) == ~Truthy(qa.question) \/ ~Truthy(qa.answer)

-----------------------------------------------------------------------------
(* Question store, lines 24-39 *)

\* triviaQuestions.some(q => q.question === question)
Exists(tq, question) == \E i \in 1..Len(tq) : tq[i].question = question

\* the duplicate test left out
storeTriviaQuestion_NoDedup(tq, question, answer) ==
  LET pushed == Append(tq, [question |-> question, answer |-> answer])
  IN  IF Len(pushed) > maxTriviaQuestions THEN Tail(pushed) ELSE pushed

\* pop() instead of shift(): the newest record is dropped
storeTriviaQuestion_Pop(tq, question, answer) ==
  IF \E i \in 1..Len(tq) : tq[i].question = question
  THEN tq
  ELSE LET pushed == Append(tq, [question |-> question, answer |-> answer])
       IN  IF Len(pushed) > maxTriviaQuestions
           THEN SubSeq(pushed, 1, Len(pushed) - 1)
           ELSE pushed

storeTriviaQuestion(tq, question, answer) ==
  IF Exists(tq, question)
  THEN tq
  ELSE LET pushed == Append(tq, [question |-> question, answer |-> answer])
       IN  IF Len(pushed) > maxTriviaQuestions THEN Tail(pushed) ELSE pushed

-----------------------------------------------------------------------------
(* Score ledger, lines 26-27 and 45-55: an object is a function whose domain
   holds the keys that have been assigned *)

\* obj[key] || 0
Get(obj, key) == IF key \in DOMAIN obj THEN obj[key] ELSE 0

\* obj[key] = value
Put(obj, key, value) ==
  [k \in DOMAIN obj \cup {key} |-> IF k = key THEN value ELSE obj[k]]

\* the score is initialised on every call
updateUserScore_Reset(us, userId, correct) ==
  LET init == Put(us, userId, 0)
  IN  IF correct THEN Put(init, userId, init[userId] + 1) ELSE init

updateUserScore(us, userId, correct) ==
  LET init == IF Get(us, userId) = 0 THEN Put(us, userId, 0) ELSE us
  IN  IF correct THEN Put(init, userId, init[userId] + 1) ELSE init

\* the counter is initialised on every call
updateQuestionNumber_Reset(qn, userId) ==
  LET init == Put(qn, userId, 0)
  IN  Put(init, userId, init[userId] + 1)

updateQuestionNumber(qn, userId) ==
  LET init == IF Get(qn, userId) = 0 THEN Put(qn, userId, 0) ELSE qn
  IN  Put(init, userId, init[userId] + 1)

\* the number of submissions graded so far
RECURSIVE SumOver(_, _)
SumOver(obj, keys) ==
  IF keys = {} THEN 0
  ELSE LET k == CHOOSE x \in keys : TRUE
       IN  obj[k] + SumOver(obj, keys \ {k})

Answered == SumOver(questionNumber, DOMAIN questionNumber)

-----------------------------------------------------------------------------
(* Responses *)

NoResponse ==
  [view |-> "none", status |-> 0, question |-> Null, answer |-> Null,
   userAnswer |-> Null, correct |-> Null, error |-> Null,
   score |-> 0, questionsAnswered |-> 0]

\* renderChat(res, overrides), lines 58-68: the defaults are null
renderChat(overrides) ==
  LET field(name) == IF name \in DOMAIN overrides THEN overrides[name] ELSE Null
  IN  [view |-> "chat", status |-> 200,
       question |-> field("question"), answer |-> field("answer"),
       userAnswer |-> field("userAnswer"), correct |-> field("correct"),
       error |-> field("error"), score |-> 0, questionsAnswered |-> 0]

\* res.status(status).json({ error })
JsonError(status, message) ==
  [NoResponse EXCEPT !.view = "json", !.status = status, !.error = <<message>>]

\* res.json({ score, questionsAnswered })
JsonScore(score, questionsAnswered) ==
  [NoResponse EXCEPT !.view = "json", !.status = 200,
                     !.score = score, !.questionsAnswered = questionsAnswered]

\* a handler that throws synchronously is answered by the framework with 500
Uncaught == [NoResponse EXCEPT !.view = "exception", !.status = 500]

-----------------------------------------------------------------------------
(* Inputs *)

\* message contents the question source may return; Null is a response
\* without content
Responses ==
  { <<"Question:", " ", "c", " ", "Answer:", " ", "P">>,
    <<" ", "QUESTION:", "c", "answer:", "r", " ">>,
    <<"d", " ", "Answer:", "p">>,
    <<"Question:", "f", "\n", "Answer:", "P">>,
    <<"Question:", "c", "Answer:", " ">>,
    <<"Answer:", "p">>,
    Null }

\* lines 105-121 applied to each content
Parsed == [content \in Responses |-> ParseQA(content)]

\* req.body.answer; Undefined is a body without the field
Submissions == { <<" ", "P", " ">>, <<"r">>, Undefined }

\* req.body.userId / req.query.userId; "" stands for an absent or empty
\* field, both of which || replaces by 'default'
UserIdInputs == { "", "default", "alice" }

\* the id is used as it was sent
UserIdOf_Raw(input) == input

\* req.body.userId || 'default'
UserIdOf(input) == IF input = "" THEN "default" ELSE input

NoRequest ==
  [op |-> "none", content |-> Null, randomIndex |-> 0,
   userId |-> "", answer |-> Null]

-----------------------------------------------------------------------------
(* Fruits service, state (lines 29-30) and inputs *)

FruitRequests == 1..MaxFruitRequests

\* request.params.id: "bad" is not a well-formed ObjectId
FruitIdInputs == {"bad", "a1", "b2"}

\* request.body of PUT, as { color }
ColorInputs == {"red", "green"}

\* ObjectId.isValid(id)
ObjectIdIsValid(id) == id # "bad"

\* the collection when the service starts: empty, or one fruit
InitialDocs == { <<>>, [id \in {"a1"} |-> "red"] }

\* a request that has not arrived; entered tells whether fruitsCollection
\* was set when the route handler began; count is the set holding
\* updatedCount when the body has that key; settled is the set holding
\* result.modifiedCount once the promise of updateOne has resolved
NewFruitRequest ==
  [pc |-> "new", route |-> "none", id |-> "", color |-> "", entered |-> "no",
   status |-> 0, error |-> "", count |-> {}, settled |-> {}]

FruitsIdle(initial) ==
  /\ client = FALSE
  /\ fruitsCollection = FALSE
  /\ docs = initial
  /\ pending = <<>>
  /\ fruitReq = [r \in FruitRequests |-> NewFruitRequest]

-----------------------------------------------------------------------------
(* State *)

\* the shared state as the handler that ran last found it
Snapshot ==
  [triviaQuestions |-> triviaQuestions, currentQuestion |-> currentQuestion,
   currentAnswer |-> currentAnswer, userScore |-> userScore,
   questionNumber |-> questionNumber]

Init ==
  /\ triviaQuestions = <<>>
  /\ currentQuestion = Null
  /\ currentAnswer = Null
  /\ userScore = <<>>
  /\ questionNumber = <<>>
  /\ inflight = 0
  /\ req = NoRequest
  /\ res = NoResponse
  /\ prev = Snapshot
  /\ FruitsIdle(<<>>)

-----------------------------------------------------------------------------
(* GET /question, lines 79-145 *)

\* the active pair is cleared while the question is being fetched
QuestionAwait_Clears ==
  /\ inflight < MaxInflight
  /\ inflight' = inflight + 1
  /\ req' = [NoRequest EXCEPT !.op = "question.await"]
  /\ res' = NoResponse
  /\ prev' = Snapshot
  /\ currentQuestion' = Null
  /\ currentAnswer' = Null
  /\ UNCHANGED <<triviaQuestions, userScore, questionNumber>>
  /\ UNCHANGED fruitsVars

\* lines 79-102: the handler posts to the question source and suspends
QuestionAwait ==
  /\ inflight < MaxInflight
  /\ inflight' = inflight + 1
  /\ req' = [NoRequest EXCEPT !.op = "question.await"]
  /\ res' = NoResponse
  /\ prev' = Snapshot
  /\ UNCHANGED <<triviaQuestions, currentQuestion, currentAnswer,
                 userScore, questionNumber>>
  /\ UNCHANGED fruitsVars

\* the assignment of line 130 left out
Arm_QuestionOnly(question, answer) ==
  [currentQuestion |-> question, currentAnswer |-> currentAnswer]

\* the assignment of line 129 left out
Arm_AnswerOnly(question, answer) ==
  [currentQuestion |-> currentQuestion, currentAnswer |-> answer]

\* lines 129-130
Arm(question, answer) ==
  [currentQuestion |-> question, currentAnswer |-> answer]

\* lines 105-132: the post resolved with a response holding content
QuestionResolved(content) ==
  /\ inflight > 0
  /\ inflight' = inflight - 1
  /\ req' = [NoRequest EXCEPT !.op = "question.resolved", !.content = content]
  /\ prev' = Snapshot
  /\ LET qa == Parsed[content]
     IN  IF ParseFailed(qa)
         THEN /\ res' = JsonError(500, "Could not parse question/answer from AI response")
              /\ UNCHANGED <<triviaQuestions, currentQuestion, currentAnswer>>
         ELSE /\ triviaQuestions' = storeTriviaQuestion(triviaQuestions, qa.question, qa.answer)
              /\ currentQuestion' = Arm(qa.question, qa.answer).currentQuestion
              /\ currentAnswer' = Arm(qa.question, qa.answer).currentAnswer
              /\ res' = renderChat([question |-> qa.question])
  /\ UNCHANGED <<userScore, questionNumber>>
  /\ UNCHANGED fruitsVars

\* the catch branch without the stored question
Fallback_None(tq, randomIndex) ==
  JsonError(500, "Unable to get trivia question")

\* lines 137-143: the response of the catch branch; randomIndex is
\* Math.floor(Math.random() * triviaQuestions.length) + 1
Fallback(tq, randomIndex) ==
  IF Len(tq) > 0
  THEN renderChat([question |-> tq[randomIndex].question])
  ELSE JsonError(500, "Unable to get trivia question")

\* lines 133-144: the post was rejected (network error, non-2xx status), or
\* the content was not a string and .trim() threw
QuestionRejected(randomIndex) ==
  /\ inflight > 0
  /\ inflight' = inflight - 1
  /\ randomIndex \in 1..Len(triviaQuestions) \/ (Len(triviaQuestions) = 0 /\ randomIndex = 0)
  /\ req' = [NoRequest EXCEPT !.op = "question.rejected", !.randomIndex = randomIndex]
  /\ prev' = Snapshot
  /\ res' = Fallback(triviaQuestions, randomIndex)
  /\ UNCHANGED <<triviaQuestions, currentQuestion, currentAnswer,
                 userScore, questionNumber>>
  /\ UNCHANGED fruitsVars

-----------------------------------------------------------------------------
(* POST /answer, lines 147-169 *)

\* the test of line 151 left out
NoActiveQuestion_Never(question, answer) == FALSE

\* line 151
NoActiveQuestion(question, answer) == ~Truthy(question) \/ ~Truthy(answer)

\* toLowerCase() left out
Grade_CaseSensitive(userAnswer, expected) ==
  Trim(userAnswer) = Trim(expected)

\* line 158
Grade(userAnswer, expected) ==
  Trim(ToLowerCase(userAnswer)) = Trim(ToLowerCase(expected))

Answer(userIdInput, userAnswer) ==
  LET userId == UserIdOf(userIdInput)
  IN  /\ req' = [NoRequest EXCEPT !.op = "answer", !.userId = userIdInput,
                                  !.answer = userAnswer]
      /\ prev' = Snapshot
      /\ IF NoActiveQuestion(currentQuestion, currentAnswer)
         THEN /\ res' = renderChat([question |-> <<"Please get a new question first!">>,
                                    error |-> <<"No active question found">>])
              /\ UNCHANGED <<userScore, questionNumber>>
         ELSE IF ~IsString(userAnswer)
         THEN \* undefined.toLowerCase() throws a TypeError
              /\ res' = Uncaught
              /\ UNCHANGED <<userScore, questionNumber>>
         ELSE LET correct == Grade(userAnswer, currentAnswer)
              IN  /\ Answered < MaxAnswers
                  /\ userScore' = IF correct
                                  THEN updateUserScore(userScore, userId, TRUE)
                                  ELSE userScore
                  /\ questionNumber' = updateQuestionNumber(questionNumber, userId)
                  /\ res' = renderChat([question |-> currentQuestion,
                                        answer |-> currentAnswer,
                                        userAnswer |-> userAnswer,
                                        correct |-> Bool(correct)])
      /\ UNCHANGED <<triviaQuestions, currentQuestion, currentAnswer, inflight>>
      /\ UNCHANGED fruitsVars

-----------------------------------------------------------------------------
(* GET /score, lines 171-177 *)

\* the defaults are written into the ledger
Score_Creates(userIdInput) ==
  LET userId == UserIdOf(userIdInput)
  IN  /\ req' = [NoRequest EXCEPT !.op = "score", !.userId = userIdInput]
      /\ prev' = Snapshot
      /\ res' = JsonScore(Get(userScore, userId), Get(questionNumber, userId))
      /\ userScore' = Put(userScore, userId, Get(userScore, userId))
      /\ questionNumber' = Put(questionNumber, userId, Get(questionNumber, userId))
      /\ UNCHANGED <<triviaQuestions, currentQuestion, currentAnswer, inflight>>
      /\ UNCHANGED fruitsVars

Score(userIdInput) ==
  LET userId == UserIdOf(userIdInput)
  IN  /\ req' = [NoRequest EXCEPT !.op = "score", !.userId = userIdInput]
      /\ prev' = Snapshot
      /\ res' = JsonScore(Get(userScore, userId), Get(questionNumber, userId))
      /\ UNCHANGED <<triviaQuestions, currentQuestion, currentAnswer,
                     userScore, questionNumber, inflight>>
      /\ UNCHANGED fruitsVars

-----------------------------------------------------------------------------
(* The grading rule of line 158 on its own: every pair of strings over a
   small alphabet *)

GradeAlphabet == {"p", "P", "r", " "}

GradeStrings == UNION {[1..n -> GradeAlphabet] : n \in 0..MaxGradeLen}

GradeInit ==
  /\ triviaQuestions = <<>>
  /\ currentQuestion = <<"c">>
  /\ currentAnswer \in GradeStrings
  /\ userScore = <<>>
  /\ questionNumber = <<>>
  /\ inflight = 0
  /\ req = NoRequest
  /\ res = NoResponse
  /\ prev = Snapshot
  /\ FruitsIdle(<<>>)

\* const correct = userAnswer.toLowerCase().trim() === currentAnswer.toLowerCase().trim()
GradeApply(userAnswer) ==
  /\ req.op = "none"
  /\ req' = [NoRequest EXCEPT !.op = "grade", !.answer = userAnswer]
  /\ res' = [NoResponse EXCEPT !.correct = Bool(Grade(userAnswer, currentAnswer))]
  /\ UNCHANGED <<triviaQuestions, currentQuestion, currentAnswer,
                 userScore, questionNumber, inflight, prev>>
  /\ UNCHANGED fruitsVars

GradeNext == \E userAnswer \in GradeStrings : GradeApply(userAnswer)

SpecGrade == GradeInit /\ [][GradeNext]_vars

-----------------------------------------------------------------------------

Next ==
  \/ QuestionAwait
  \/ \E content \in Responses : QuestionResolved(content)
  \/ \E randomIndex \in 0..Len(triviaQuestions) : QuestionRejected(randomIndex)
  \/ \E userIdInput \in UserIdInputs, userAnswer \in Submissions :
       Answer(userIdInput, userAnswer)
  \/ \E userIdInput \in UserIdInputs : Score(userIdInput)

Spec == Init /\ [][Next]_vars

-----------------------------------------------------------------------------
(* Fruits service, handlers *)

FruitResponse(request, status, error) ==
  [request EXCEPT !.pc = "done", !.status = status, !.error = error]

\* The synchronous part of a route handler, entered from next(); connected
\* tells whether fruitsCollection is set.  The result is the request as the
\* handler leaves it and the updates it has issued.
\*   GET /api/fruits, lines 87-104: fruitsCollection.find throws a TypeError
\*   into the catch block when the collection is not set.
\*   PUT /api/fruits/:id, lines 165-189: updateOne is not awaited, so result
\*   is a promise: result.matchedCount === 0 is false, result.modifiedCount
\*   is undefined and the body has no updatedCount.
RouteEntry(r, route, id, color, connected) ==
  LET entered == [NewFruitRequest EXCEPT
                    !.route = route, !.id = id, !.color = color,
                    !.entered = IF connected THEN "connected" ELSE "unset"]
  IN  IF route = "GET"
      THEN IF connected
           THEN [request |-> [entered EXCEPT !.pc = "finding"], issued |-> <<>>]
           ELSE [request |-> FruitResponse(entered, 500, "Failed to fetch fruits"),
                 issued |-> <<>>]
      ELSE IF ~ObjectIdIsValid(id)
           THEN [request |-> FruitResponse(entered, 400, "Invalid ObjectId"),
                 issued |-> <<>>]
           ELSE IF ~connected
           THEN [request |-> FruitResponse(entered, 500, "Failed to update Fruit"),
                 issued |-> <<>>]
           ELSE [request |-> FruitResponse(entered, 200, ""),
                 issued |-> <<[r |-> r, id |-> id, color |-> color]>>]

\* Connection middleware, lines 48-61, with initMongo, lines 36-45, up to
\* the first suspension.  With the collection set, next() runs the route.
\* With neither client nor collection, initMongo creates the client and
\* suspends on client.connect().  With a client but no collection (a connect
\* in flight, or failed), initMongo skips its body and returns, and next()
\* runs the route.
Arrive(r, route, id, color) ==
  /\ fruitReq[r].pc = "new"
  /\ IF ~fruitsCollection /\ ~client
     THEN /\ client' = TRUE
          /\ fruitReq' = [fruitReq EXCEPT ![r] =
                            [NewFruitRequest EXCEPT !.pc = "connecting",
                               !.route = route, !.id = id, !.color = color]]
          /\ UNCHANGED pending
     ELSE LET out == RouteEntry(r, route, id, color, fruitsCollection)
          IN  /\ fruitReq' = [fruitReq EXCEPT ![r] = out.request]
              /\ pending' = pending \o out.issued
              /\ UNCHANGED client
  /\ UNCHANGED <<fruitsCollection, docs>>
  /\ UNCHANGED triviaVars

\* client.connect() settles, lines 41-43 and 53-60: on success the
\* collection is cached and next() runs the route; on failure the middleware
\* answers 500 and the client stays assigned
ConnectSettles(r, ok) ==
  /\ fruitReq[r].pc = "connecting"
  /\ IF ok
     THEN LET out == RouteEntry(r, fruitReq[r].route, fruitReq[r].id,
                                fruitReq[r].color, TRUE)
          IN  /\ fruitsCollection' = TRUE
              /\ fruitReq' = [fruitReq EXCEPT ![r] = out.request]
              /\ pending' = pending \o out.issued
     ELSE /\ fruitReq' = [fruitReq EXCEPT ![r] =
                            FruitResponse(fruitReq[r], 500, "Database connection failed")]
          /\ UNCHANGED <<fruitsCollection, pending>>
  /\ UNCHANGED <<client, docs>>
  /\ UNCHANGED triviaVars

\* find({}).toArray() settles, lines 90-103
FindSettles(r, ok) ==
  /\ fruitReq[r].pc = "finding"
  /\ fruitReq' = [fruitReq EXCEPT ![r] =
       IF ~ok THEN FruitResponse(fruitReq[r], 500, "Failed to fetch fruits")
       ELSE IF DOMAIN docs = {} THEN FruitResponse(fruitReq[r], 404, "No fruits found")
       ELSE FruitResponse(fruitReq[r], 200, "")]
  /\ UNCHANGED <<client, fruitsCollection, docs, pending>>
  /\ UNCHANGED triviaVars

\* the database carries out the oldest update that was issued, and the
\* promise of updateOne resolves with its modifiedCount
UpdateSettles ==
  /\ Len(pending) > 0
  /\ LET update == Head(pending)
         matched == update.id \in DOMAIN docs
         modified == IF matched /\ docs[update.id] # update.color THEN 1 ELSE 0
     IN  /\ docs' = IF matched THEN [docs EXCEPT ![update.id] = update.color] ELSE docs
         /\ fruitReq' = [fruitReq EXCEPT ![update.r].settled = {modified}]
  /\ pending' = Tail(pending)
  /\ UNCHANGED <<client, fruitsCollection>>
  /\ UNCHANGED triviaVars

FruitsInit ==
  /\ triviaQuestions = <<>>
  /\ currentQuestion = Null
  /\ currentAnswer = Null
  /\ userScore = <<>>
  /\ questionNumber = <<>>
  /\ inflight = 0
  /\ req = NoRequest
  /\ res = NoResponse
  /\ prev = Snapshot
  /\ \E initial \in InitialDocs : FruitsIdle(initial)

FruitsNext ==
  \/ \E r \in FruitRequests : Arrive(r, "GET", "", "")
  \/ \E r \in FruitRequests, id \in FruitIdInputs, color \in ColorInputs :
       Arrive(r, "PUT", id, color)
  \/ \E r \in FruitRequests, ok \in BOOLEAN : ConnectSettles(r, ok)
  \/ \E r \in FruitRequests, ok \in BOOLEAN : FindSettles(r, ok)
  \/ UpdateSettles

SpecFruits == FruitsInit /\ [][FruitsNext]_vars

-----------------------------------------------------------------------------
(* Properties.  Each is a predicate on the state a handler leaves: req is
   the request it served, res the response it sent, prev the shared state it
   started from. *)

UserIds == {UserIdOf(input) : input \in UserIdInputs}

\* the pair the last resolved response parses into
LastQA == Parsed[req.content]

\* neither parsing strategy gave a non-empty question with a non-empty answer
Unparsable(qa) ==
  \/ qa.question \in {Null, <<>>}
  \/ qa.answer \in {Null, <<>>}

ResolvedOk == req.op = "question.resolved" /\ ~Unparsable(LastQA)
ResolvedUnparsable == req.op = "question.resolved" /\ Unparsable(LastQA)

LedgerUnchanged ==
  userScore = prev.userScore /\ questionNumber = prev.questionNumber

ActiveUnchanged ==
  currentQuestion = prev.currentQuestion /\ currentAnswer = prev.currentAnswer

StoreUnchanged == triviaQuestions = prev.triviaQuestions

\* C1: after a request that falls back to the store and shows a stored
\* question, the active pair is the picked record: currentQuestion is the
\* question shown and currentAnswer is the answer stored with it.
C1_FallbackArmsPickedRecord ==
  (req.op = "question.rejected" /\ res.view = "chat") =>
     LET picked == prev.triviaQuestions[req.randomIndex]
     IN  /\ res.question = picked.question
         /\ currentQuestion = picked.question
         /\ currentAnswer = picked.answer

C3_SourceFailure ==
  req.op = "question.rejected" =>
     /\ StoreUnchanged
     /\ IF Len(prev.triviaQuestions) > 0
        THEN /\ res.view = "chat"
             /\ res.status = 200
             /\ Exists(triviaQuestions, res.question)
        ELSE /\ res.view = "json"
             /\ res.status = 500
             /\ res.error = <<"Unable to get trivia question">>
             /\ ActiveUnchanged
             /\ LedgerUnchanged

C3_Witness ==
  /\ req.op = "question.rejected"
  /\ Len(triviaQuestions) = 2
  /\ res.status = 200
  /\ res.question = triviaQuestions[2].question

\* C4: no two records of the store have the same question, and adding a
\* question that is already stored changes nothing: size, order and the
\* answer stored first stay, also when the new answer differs.
C4_Dedup ==
  /\ \A i, j \in 1..Len(triviaQuestions) :
        triviaQuestions[i].question = triviaQuestions[j].question => i = j
  /\ (ResolvedOk /\ Exists(prev.triviaQuestions, LastQA.question)) => StoreUnchanged

C4_Witness ==
  /\ ResolvedOk
  /\ \E i \in 1..Len(prev.triviaQuestions) :
        /\ prev.triviaQuestions[i].question = LastQA.question
        /\ prev.triviaQuestions[i].answer # LastQA.answer
        /\ triviaQuestions[i].answer = prev.triviaQuestions[i].answer

\* C5: the store never holds more than maxTriviaQuestions records; adding a
\* new question appends it, and when the store was full exactly the oldest
\* record is dropped, the others keep their order and the new one is last.
C5_BoundedFifo ==
  /\ Len(triviaQuestions) <= maxTriviaQuestions
  /\ (ResolvedOk /\ ~Exists(prev.triviaQuestions, LastQA.question)) =>
        LET record == [question |-> LastQA.question, answer |-> LastQA.answer]
        IN  IF Len(prev.triviaQuestions) = maxTriviaQuestions
            THEN triviaQuestions = Append(Tail(prev.triviaQuestions), record)
            ELSE triviaQuestions = Append(prev.triviaQuestions, record)

\* maxTriviaQuestions + 1 distinct questions went in: the first is gone
C5_Witness ==
  /\ ResolvedOk
  /\ Len(prev.triviaQuestions) = maxTriviaQuestions
  /\ Len(triviaQuestions) = maxTriviaQuestions
  /\ ~Exists(prev.triviaQuestions, LastQA.question)
  /\ ~Exists(triviaQuestions, prev.triviaQuestions[1].question)
  /\ triviaQuestions[Len(triviaQuestions)].question = LastQA.question

\* C6: after a response that parses into (question, answer) the store holds
\* a record with that question, the active pair is exactly (question,
\* answer) whatever it was before, and the question is what the caller gets.
C6_ParseSuccessArms ==
  ResolvedOk =>
     /\ Exists(triviaQuestions, LastQA.question)
     /\ currentQuestion = LastQA.question
     /\ currentAnswer = LastQA.answer
     /\ res.view = "chat"
     /\ res.status = 200
     /\ res.question = LastQA.question

C6_Witness ==
  /\ ResolvedOk
  /\ prev.currentQuestion \notin {Null, LastQA.question}
  /\ prev.currentAnswer \notin {Null, LastQA.answer}
  /\ currentAnswer = LastQA.answer

\* C7: an answer submitted while no question is active is refused with "No
\* active question found", no score and no progress changes, and there is
\* still no active question.
C7_NoActiveQuestion ==
  (req.op = "answer" /\ prev.currentQuestion = Null /\ prev.currentAnswer = Null) =>
     /\ res.view = "chat"
     /\ res.error = <<"No active question found">>
     /\ res.correct = Null
     /\ LedgerUnchanged
     /\ currentQuestion = Null
     /\ currentAnswer = Null

C7_Witness ==
  /\ req.op = "answer"
  /\ IsString(req.answer)
  /\ prev.currentQuestion = Null
  /\ res.error = <<"No active question found">>

C9_UnparsableNoTransition ==
  ResolvedUnparsable =>
     /\ ActiveUnchanged
     /\ StoreUnchanged
     /\ LedgerUnchanged

C9_Witness ==
  /\ ResolvedUnparsable
  /\ LastQA.question # Null
  /\ currentQuestion # Null
  /\ Len(triviaQuestions) > 0

\* C10: whenever a handler can run, the active question and answer are both
\* unset or are the question and the answer of one and the same response.
C10_PairFromOneResponse ==
  \/ currentQuestion = Null /\ currentAnswer = Null
  \/ \E content \in Responses :
        /\ ~Unparsable(Parsed[content])
        /\ currentQuestion = Parsed[content].question
        /\ currentAnswer = Parsed[content].answer

\* an answer graded while two requests for a question are suspended, after
\* the active pair has been replaced
C10_Witness ==
  /\ inflight = 2
  /\ req.op = "answer"
  /\ res.correct # Null
  /\ Len(triviaQuestions) = 2
  /\ currentQuestion = triviaQuestions[2].question

\* C11: a request for a question that is suspended on the question source
\* has changed no shared state and blocks nobody: while it is pending
\* GET /score and POST /answer can run, and an answer is graded against the
\* pair that was active before (or refused when none was).
C11_PendingRequestBlocksNothing ==
  /\ req.op = "question.await" =>
        ActiveUnchanged /\ StoreUnchanged /\ LedgerUnchanged
  /\ inflight > 0 =>
        /\ ENABLED (\E userIdInput \in UserIdInputs : Score(userIdInput))
        /\ (Answered < MaxAnswers) =>
              ENABLED (\E userIdInput \in UserIdInputs, userAnswer \in Submissions :
                         Answer(userIdInput, userAnswer))
  /\ (inflight > 0 /\ req.op = "answer" /\ IsString(req.answer)) =>
        IF prev.currentQuestion = Null
        THEN res.error = <<"No active question found">> /\ LedgerUnchanged
        ELSE /\ res.question = prev.currentQuestion
             /\ res.answer = prev.currentAnswer
             /\ res.correct =
                  Bool(Trim(ToLowerCase(req.answer)) = Trim(ToLowerCase(prev.currentAnswer)))

\* a correct answer to the earlier question while a request is pending
C11_Witness ==
  /\ inflight > 0
  /\ req.op = "answer"
  /\ res.correct = JsTrue
  /\ res.question = currentQuestion
  /\ questionNumber # prev.questionNumber

\* C12: an answer request without an answer, while a question is active, is
\* rejected by the handler with an input-validation error: an error response
\* of the handler itself, nothing graded, no counter changed.
C12_MissingAnswerRejected ==
  (req.op = "answer" /\ prev.currentQuestion # Null /\ req.answer = Undefined) =>
     /\ res.view \in {"chat", "json"}
     /\ res.error # Null
     /\ res.correct = Null
     /\ LedgerUnchanged

\* the same letter up to case
SameLetter(x, y) == x = y \/ {x, y} = {"p", "P"}

\* a and b have the same length once their leading and trailing blanks are
\* dropped, and the same letters up to case at every position
EqualUpToCaseAndBlanks(a, b) ==
  LET na == {i \in 1..Len(a) : a[i] \notin {" ", "\n"}}
      nb == {i \in 1..Len(b) : b[i] \notin {" ", "\n"}}
  IN  IF na = {} \/ nb = {}
      THEN na = {} /\ nb = {}
      ELSE /\ Max(na) - Min(na) = Max(nb) - Min(nb)
           /\ \A k \in 0..(Max(na) - Min(na)) :
                 SameLetter(a[Min(na) + k], b[Min(nb) + k])

\* C13: grade(submitted, expected) is true exactly when the two strings are
\* equal after lower-casing and dropping surrounding whitespace; a partial
\* match never grades true.
C13_GradeRule ==
  req.op = "grade" =>
     (res.correct = JsTrue <=> EqualUpToCaseAndBlanks(req.answer, currentAnswer))

\* grade(" P ", "p") is true
C13_Witness ==
  /\ req.op = "grade"
  /\ req.answer = <<" ", "P", " ">>
  /\ currentAnswer = <<"p">>
  /\ res.correct = JsTrue

C15_AnonymousIsDefault ==
  /\ (req.op = "answer" /\ req.userId = "" /\ res.correct # Null) =>
        /\ Get(questionNumber, "default") = Get(prev.questionNumber, "default") + 1
        /\ Get(userScore, "default") =
             Get(prev.userScore, "default") + (IF res.correct = JsTrue THEN 1 ELSE 0)
        /\ \A other \in (DOMAIN questionNumber \cup DOMAIN userScore) \ {"default"} :
              /\ other \in DOMAIN prev.questionNumber
              /\ questionNumber[other] = prev.questionNumber[other]
              /\ Get(userScore, other) = Get(prev.userScore, other)
  /\ (req.op = "score" /\ req.userId = "") =>
        /\ res.score = Get(userScore, "default")
        /\ res.questionsAnswered = Get(questionNumber, "default")

\* the score of an anonymous correct submission read back without an id,
\* with a named player in the ledger
C15_Witness ==
  /\ req.op = "score"
  /\ req.userId = ""
  /\ res.questionsAnswered = 1
  /\ res.score = 1
  /\ "alice" \in DOMAIN questionNumber

C18_ActivePairWellFormed ==
  /\ \/ currentQuestion = Null /\ currentAnswer = Null
     \/ /\ IsString(currentQuestion) /\ Len(currentQuestion) > 0
        /\ IsString(currentAnswer) /\ Len(currentAnswer) > 0
  /\ \A i \in 1..Len(triviaQuestions) :
        /\ IsString(triviaQuestions[i].question) /\ Len(triviaQuestions[i].question) > 0
        /\ IsString(triviaQuestions[i].answer) /\ Len(triviaQuestions[i].answer) > 0
  /\ prev.currentQuestion # Null => currentQuestion # Null

\* a failed request for a question leaves the question active
C18_Witness ==
  /\ req.op = "question.rejected"
  /\ prev.currentQuestion # Null
  /\ currentQuestion # Null
  /\ res.status = 200

\* C16: the connection middleware lets no route handler of the Fruits
\* service begin while fruitsCollection is not set, also for a request that
\* arrives while the first connect is in flight or after a connect failed.
C16_HandlersRunConnected ==
  \A r \in FruitRequests : fruitReq[r].entered # "unset"

\* C19: PUT /api/fruits/:id with a well-formed id answers 404 "Fruit not
\* found" when no document has the id; otherwise it answers once the update
\* has been carried out, with updatedCount the number of documents modified.
C19_PutReportsUpdate ==
  \A r \in FruitRequests :
     (/\ fruitReq[r].route = "PUT"
      /\ fruitReq[r].pc = "done"
      /\ fruitReq[r].entered = "connected"
      /\ ObjectIdIsValid(fruitReq[r].id)) =>
        IF fruitReq[r].id \notin DOMAIN docs
        THEN fruitReq[r].status = 404 /\ fruitReq[r].error = "Fruit not found"
        ELSE /\ fruitReq[r].status = 200
             /\ fruitReq[r].settled # {}
             /\ fruitReq[r].count = fruitReq[r].settled

====
